---- MODULE Spec2Model ----
(***************************************************************************)
(* A model of speech_enhancer.py: the blob aggregator                      *)
(* (load_preprocessed_samples), the dataset indexer (list_speakers,        *)
(* list_data), the commands preprocess / train / predict and the           *)
(* prediction storage (PredictionStorage.save_prediction).                 *)
(*                                                                         *)
(* Python sequences are 0-based; the model's are 1-based.  An array is a   *)
(* sequence of rows.  A path is a sequence of characters.                  *)
(***************************************************************************)
EXTENDS Integers, Sequences, FiniteSets, TLC

\* An optional argument: None, or Some(x) with the value x.
None == <<>>

Some(x) == <<x>>

ValueOf(opt) == opt[1]

Min(a, b) == IF a <= b THEN a ELSE b

Max(a, b) == IF a >= b THEN a ELSE b

\* The bijections of 1..n: what np.random.permutation(n) can draw.
Permutations_(n) ==
  {p \in [1..n -> 1..n] : \A i, j \in 1..n : p[i] = p[j] => i = j}

(***************************************************************************)
(* State                                                                   *)
(***************************************************************************)

\* load_preprocessed_samples.
VARIABLES
  preprocessed_blob_paths, \* the archives, in order: the row count of each
  max_samples,             \* None or Some(k), k an integer
  load_pc,                 \* position in load_preprocessed_samples
  all_samples,             \* kind -> the list of arrays collected so far
  samples,                 \* kind -> the concatenated (then permuted) array
  permutation,             \* the permutation drawn
  load_result              \* kind -> the array returned

loadVars ==
  <<preprocessed_blob_paths, max_samples, load_pc, all_samples, samples,
    permutation, load_result>>

\* list_data.
VARIABLES
  ld_pc,             \* position in list_data
  ld_speaker_ids,    \* its arguments
  ld_max_files,
  speech_subset,     \* the (video, audio) pairs the speech dataset gave
  noise_file_paths,  \* the paths the noise dataset gave
  ld_result          \* the three sequences returned

listVars ==
  <<ld_pc, ld_speaker_ids, ld_max_files, speech_subset, noise_file_paths, ld_result>>

\* list_speakers.
VARIABLES
  spk_pc,            \* position in list_speakers
  args_speakers,     \* args.speakers: None or Some(list)
  args_ignored,      \* args.ignored_speakers: None or Some(list)
  speaker_ids,       \* the list being built
  ignored_i          \* the index of the next ignored identifier

speakersVars == <<spk_pc, args_speakers, args_ignored, speaker_ids, ignored_i>>

\* The commands.
VARIABLES
  cmd,                      \* the command running, "shell" between commands
  ran,                      \* the commands started so far
  pc,                       \* position in the command
  escaped,                  \* the step whose exception left the command
  faults,                   \* the failures injected so far
  args,                     \* the command line: [speakers, ignored]
  blob_file,                \* args.preprocessed_blob_path
  normalization_cache,      \* args.normalization_cache
  model_cache,              \* args.model_cache_dir
  video_normalizer,         \* None or Some(statistics)
  train_video_samples,      \* None or Some(the statistics applied so far)
  validation_video_samples,
  video_samples,            \* predict: the current triple's video tensor
  fed,                      \* every video tensor handed to the network
  run_dir,                  \* whether PredictionStorage made its directory
  speaker_dirs,             \* the speaker directories under it
  sample_dirs,              \* <<speaker, name>> -> (file name -> content)
  cmd_speaker_ids,          \* speaker_ids of preprocess and predict
  listed,                   \* the list_data results, one per call
  clean_speech_paths,
  si, ci, ti,               \* indices of the speaker, clean path and triple
  results,                  \* one [speaker, triple, raised] per triple tried
  caught,                   \* the exception the guard caught last
  log                       \* the messages of logging.exception

runVars ==
  <<cmd, ran, pc, escaped, faults, args, blob_file, normalization_cache,
    model_cache, video_normalizer, train_video_samples,
    validation_video_samples, video_samples, fed, run_dir, speaker_dirs,
    sample_dirs, cmd_speaker_ids, listed, clean_speech_paths, si, ci, ti,
    results, caught, log>>

\* What stays put while a command runs between two of its own steps.
fileVars == <<blob_file, normalization_cache, model_cache>>

storageVars == <<run_dir, speaker_dirs, sample_dirs>>

loopVars == <<cmd_speaker_ids, listed, clean_speech_paths, si, ci, ti>>

guardVars == <<results, caught, log>>

tensorVars == <<video_normalizer, train_video_samples, validation_video_samples,
                video_samples, fed>>

vars == <<loadVars, listVars, speakersVars, runVars>>

(***************************************************************************)
(* load_preprocessed_samples                                               *)
(***************************************************************************)

\* Bound of the aggregator's inputs: the rows of an archive.
MaxRows == 2

\* The numbers of archives tried.
BlobCounts == {0, 1, 2}

\* The four arrays an archive holds.
Kinds ==
  {"video_samples", "mixed_spectrograms", "speech_spectrograms", "noise_spectrograms"}

\* np.load(path)[kind] of the a-th archive, which holds n rows: row r of
\* every array of one archive comes from the same preprocessed triple.
BlobArray(kind, a, n) == [r \in 1..n |-> <<kind, a, r>>]

\* np.concatenate(arrays, axis=0).
RECURSIVE Concatenate(_)
Concatenate(arrays) ==
  IF arrays = <<>> THEN <<>>
  ELSE Head(arrays) \o Concatenate(Tail(arrays))

\* array[permutation]: entry i of the result is entry permutation[i].
Take(array, perm) == [i \in 1..Len(perm) |-> array[perm[i]]]

ShuffleNoiseApart(arrays, perm) ==
  [k \in Kinds |->
     IF k = "noise_spectrograms" THEN arrays[k] ELSE Take(arrays[k], perm)]

\* Lines 58-61: the one permutation applied to each of the four arrays.
Shuffle(arrays, perm) == [k \in Kinds |-> Take(arrays[k], perm)]

SliceOffByOne(array, k) ==
  IF k = None THEN array
  ELSE IF ValueOf(k) >= 0 THEN SubSeq(array, 1, Min(ValueOf(k) + 1, Len(array)))
  ELSE SubSeq(array, 1, Max(Len(array) + ValueOf(k), 0))

\* array[:k] with Python's meaning of None and of a negative k.
Slice(array, k) ==
  IF k = None THEN array
  ELSE IF ValueOf(k) >= 0 THEN SubSeq(array, 1, Min(ValueOf(k), Len(array)))
  ELSE SubSeq(array, 1, Max(Len(array) + ValueOf(k), 0))

RECURSIVE Sum(_)
Sum(counts) == IF counts = <<>> THEN 0 ELSE Head(counts) + Sum(Tail(counts))

BlobLists == UNION {[1..m -> 0..MaxRows] : m \in BlobCounts}

NoArrays == [k \in Kinds |-> <<>>]

InitLoad ==
  /\ preprocessed_blob_paths \in BlobLists
  /\ max_samples \in
       {None} \cup {Some(k) : k \in -1 .. Sum(preprocessed_blob_paths) + 1}
  /\ load_pc = "load"
  /\ all_samples = NoArrays
  /\ samples = NoArrays
  /\ permutation = <<>>
  /\ load_result = NoArrays

\* Lines 43-50: one iteration of the loop over the archive paths.
LoadBlob ==
  /\ load_pc = "load"
  /\ Len(all_samples["video_samples"]) < Len(preprocessed_blob_paths)
  /\ LET a == Len(all_samples["video_samples"]) + 1
         n == preprocessed_blob_paths[a]
     IN all_samples' = [k \in Kinds |-> Append(all_samples[k], BlobArray(k, a, n))]
  /\ UNCHANGED <<preprocessed_blob_paths, max_samples, load_pc, samples,
                 permutation, load_result>>
  /\ UNCHANGED <<listVars, speakersVars, runVars>>

\* Lines 52-55: np.concatenate raises ValueError on an empty list.
ConcatenateAll ==
  /\ load_pc = "load"
  /\ Len(all_samples["video_samples"]) = Len(preprocessed_blob_paths)
  /\ IF preprocessed_blob_paths = <<>>
     THEN load_pc' = "raised" /\ UNCHANGED samples
     ELSE /\ load_pc' = "permute"
          /\ samples' = [k \in Kinds |-> Concatenate(all_samples[k])]
  /\ UNCHANGED <<preprocessed_blob_paths, max_samples, all_samples,
                 permutation, load_result>>
  /\ UNCHANGED <<listVars, speakersVars, runVars>>

\* Lines 57-61.
Permute ==
  /\ load_pc = "permute"
  /\ \E perm \in Permutations_(Len(samples["video_samples"])) :
       /\ permutation' = perm
       /\ samples' = Shuffle(samples, perm)
  /\ load_pc' = "return"
  /\ UNCHANGED <<preprocessed_blob_paths, max_samples, all_samples, load_result>>
  /\ UNCHANGED <<listVars, speakersVars, runVars>>

\* Lines 63-68.
ReturnSamples ==
  /\ load_pc = "return"
  /\ load_result' = [k \in Kinds |-> Slice(samples[k], max_samples)]
  /\ load_pc' = "done"
  /\ UNCHANGED <<preprocessed_blob_paths, max_samples, all_samples, samples,
                 permutation>>
  /\ UNCHANGED <<listVars, speakersVars, runVars>>

NextLoad == LoadBlob \/ ConcatenateAll \/ Permute \/ ReturnSamples

\* The (archive, row) pair an entry comes from.
Origin(entry) == <<entry[2], entry[3]>>

\* Every (archive, row) pair of the input.
AllPairs ==
  UNION {{<<a, r>> : r \in 1..preprocessed_blob_paths[a]} :
           a \in 1..Len(preprocessed_blob_paths)}

ResultLen == Len(load_result["video_samples"])

\* C1: after load_preprocessed_samples returns, the four arrays have the
\* same length and, at every index, their four entries come from the same
\* (archive, row) pair, each being that row of its own kind of array.
C1_Aligned ==
  load_pc = "done" =>
    \A k \in Kinds :
      /\ Len(load_result[k]) = ResultLen
      /\ \A i \in 1..ResultLen :
           /\ load_result[k][i][1] = k
           /\ Origin(load_result[k][i]) = Origin(load_result["video_samples"][i])

\* Two archives, a truncation, and a draw that moved rows across archives.
C1_Witness ==
  /\ load_pc = "done"
  /\ Len(preprocessed_blob_paths) = 2
  /\ max_samples = Some(2)
  /\ ResultLen = 2
  /\ Origin(load_result["noise_spectrograms"][1]) = <<2, 2>>
  /\ Origin(load_result["noise_spectrograms"][2]) = <<1, 1>>

\* C2: without max_samples the result holds every (archive, row) pair
\* exactly once, n_1+...+n_m samples in all; with max_samples = k,
\* 0 <= k <= n_1+...+n_m, it holds exactly k samples, k distinct pairs, the
\* first k of the permuted arrays, which hold every pair exactly once.
C2_Counts ==
  load_pc = "done" =>
    LET total == Sum(preprocessed_blob_paths)
        video == load_result["video_samples"]
        full == samples["video_samples"]
    IN /\ Len(full) = total
       /\ {Origin(full[i]) : i \in 1..Len(full)} = AllPairs
       /\ \A i, j \in 1..ResultLen : Origin(video[i]) = Origin(video[j]) => i = j
       /\ max_samples = None =>
            /\ ResultLen = total
            /\ {Origin(video[i]) : i \in 1..ResultLen} = AllPairs
       /\ (max_samples # None /\ ValueOf(max_samples) \in 0..total) =>
            /\ ResultLen = ValueOf(max_samples)
            /\ \A k \in Kinds :
                 load_result[k] = SubSeq(samples[k], 1, ValueOf(max_samples))

\* A truncation to one sample that kept the last row of the last archive.
C2_Witness ==
  /\ load_pc = "done"
  /\ Sum(preprocessed_blob_paths) = 4
  /\ max_samples = Some(1)
  /\ ResultLen = 1
  /\ Origin(load_result["video_samples"][1]) = <<2, 2>>

(***************************************************************************)
(* Paths and the dataset layout                                            *)
(***************************************************************************)

\* The position of the last occurrence of a character, 0 when absent.
RECURSIVE LastIndex(_, _)
LastIndex(path, ch) ==
  IF path = <<>> THEN 0
  ELSE IF path[Len(path)] = ch THEN Len(path)
  ELSE LastIndex(SubSeq(path, 1, Len(path) - 1), ch)

\* os.path.basename.
Basename(path) == SubSeq(path, LastIndex(path, "/") + 1, Len(path))

\* os.path.splitext(name)[0]: the extension starts at the last dot that
\* follows a character other than a dot.
SplitextRoot(name) ==
  LET d == LastIndex(name, ".")
  IN IF d = 0 \/ \A i \in 1..d - 1 : name[i] = "." THEN name
     ELSE SubSeq(name, 1, d - 1)

\* The speakers under the dataset root.
Speakers == {"s1", "s2"}

\* The (video, audio) pairs of a speaker under a dataset root: two
\* utterances under "test", one under "validation".
SpeakerEntries(dataset_dir, speaker_id) ==
  LET Entry(session, utterance) ==
        [video |-> dataset_dir \o <<"/", speaker_id, "/", session, "/", utterance, ".", "mp4">>,
         audio |-> dataset_dir \o <<"/", speaker_id, "/", session, "/", utterance, ".", "wav">>]
  IN IF speaker_id \notin Speakers THEN {}
     ELSE IF dataset_dir = <<"test">> THEN {Entry("a", "u1"), Entry("b", "u2")}
     ELSE IF dataset_dir = <<"validation">> THEN {Entry("c", "v1")}
     ELSE {}

\* The files under the two noise directories: they share their name.
NoiseFiles ==
  {<<"n1", "/", "x", ".", "wav">>, <<"n2", "/", "x", ".", "wav">>}

\* The duplicate-free sequences over a set, of at most cap elements.
Listings(files, cap) ==
  {q \in UNION {[1..m -> files] : m \in 0..Min(cap, Cardinality(files))} :
     \A i, j \in 1..Len(q) : q[i] = q[j] => i = j}

\* AudioVisualDataset.subset / AudioDataset.subset with shuffle=True: some
\* files of the dataset, each once, in any order, at most max_files of them.
Subset(files, max_files) ==
  Listings(files, IF max_files = None THEN Cardinality(files) ELSE ValueOf(max_files))

\* speech_subset.video_paths() and .audio_paths().
VideoPaths(subset) == [i \in 1..Len(subset) |-> subset[i].video]

AudioPaths(subset) == [i \in 1..Len(subset) |-> subset[i].audio]

(***************************************************************************)
(* list_data                                                               *)
(***************************************************************************)

SpeechEntries(dataset_dir, ids) ==
  UNION {SpeakerEntries(dataset_dir, ids[i]) : i \in 1..Len(ids)}

ListDataReturnLongest(subset, noise) ==
  LET n_files == Max(Len(subset), Len(noise))
  IN [video |-> Slice(VideoPaths(subset), Some(n_files)),
      speech |-> Slice(AudioPaths(subset), Some(n_files)),
      noise |-> Slice(noise, Some(n_files))]

\* Lines 229-231.
ListDataReturn(subset, noise) ==
  LET n_files == Min(Len(subset), Len(noise))
  IN [video |-> Slice(VideoPaths(subset), Some(n_files)),
      speech |-> Slice(AudioPaths(subset), Some(n_files)),
      noise |-> Slice(noise, Some(n_files))]

\* Every result list_data can return for its arguments.
ListData(dataset_dir, ids, max_files) ==
  {ListDataReturn(subset, noise) :
     subset \in Subset(SpeechEntries(dataset_dir, ids), max_files),
     noise \in Subset(NoiseFiles, max_files)}

NoResult == [video |-> <<>>, speech |-> <<>>, noise |-> <<>>]

InitList ==
  /\ ld_pc = "speech"
  /\ ld_speaker_ids \in {<<"s1">>, <<"s2">>, <<"s1", "s2">>, <<"s3">>}
  /\ ld_max_files \in {None, Some(0), Some(1), Some(2), Some(10)}
  /\ speech_subset = <<>>
  /\ noise_file_paths = <<>>
  /\ ld_result = NoResult

\* Lines 223-224.
ListSpeech ==
  /\ ld_pc = "speech"
  /\ speech_subset' \in Subset(SpeechEntries(<<"test">>, ld_speaker_ids), ld_max_files)
  /\ ld_pc' = "noise"
  /\ UNCHANGED <<ld_speaker_ids, ld_max_files, noise_file_paths, ld_result>>
  /\ UNCHANGED <<loadVars, speakersVars, runVars>>

\* Lines 226-227.
ListNoise ==
  /\ ld_pc = "noise"
  /\ noise_file_paths' \in Subset(NoiseFiles, ld_max_files)
  /\ ld_pc' = "return"
  /\ UNCHANGED <<ld_speaker_ids, ld_max_files, speech_subset, ld_result>>
  /\ UNCHANGED <<loadVars, speakersVars, runVars>>

\* Lines 229-231.
ReturnData ==
  /\ ld_pc = "return"
  /\ ld_result' = ListDataReturn(speech_subset, noise_file_paths)
  /\ ld_pc' = "done"
  /\ UNCHANGED <<ld_speaker_ids, ld_max_files, speech_subset, noise_file_paths>>
  /\ UNCHANGED <<loadVars, speakersVars, runVars>>

NextList == ListSpeech \/ ListNoise \/ ReturnData

\* C3: list_data returns three sequences of the same length min(s, m), the
\* first min(s, m) video paths and audio paths of the speech subset and the
\* first min(s, m) noise paths, in unchanged order, video[i] and speech[i]
\* being the two paths of the i-th pair of the subset.
C3_Truncated ==
  ld_pc = "done" =>
    LET n == Min(Len(speech_subset), Len(noise_file_paths))
    IN /\ Len(ld_result.video) = n
       /\ Len(ld_result.speech) = n
       /\ Len(ld_result.noise) = n
       /\ \A i \in 1..n :
            /\ ld_result.video[i] = speech_subset[i].video
            /\ ld_result.speech[i] = speech_subset[i].audio
            /\ ld_result.noise[i] = noise_file_paths[i]

\* More speech pairs than noise files: the excess pairs are dropped.
C3_Witness ==
  /\ ld_pc = "done"
  /\ Len(speech_subset) = 4
  /\ Len(noise_file_paths) = 2
  /\ Len(ld_result.video) = 2
  /\ ld_result.speech[2] = speech_subset[2].audio

(***************************************************************************)
(* list_speakers                                                           *)
(***************************************************************************)

\* Bounds of the command line's --speakers and --ignored_speakers lists.
MaxSpeakerArgs == 3

MaxIgnoredArgs == 2

\* The identifiers a command line can name: one is no speaker of the dataset.
SpeakerNames == Speakers \cup {"s3"}

\* AudioVisualDataset.list_speakers(): the speakers found, each once.
DiscoveredSpeakers == {<<"s1", "s2">>}

\* The position of the first occurrence of x in list, 0 when absent.
RECURSIVE FirstIndex(_, _)
FirstIndex(list, x) ==
  IF list = <<>> THEN 0
  ELSE IF Head(list) = x THEN 1
  ELSE LET rest == FirstIndex(Tail(list), x)
       IN IF rest = 0 THEN 0 ELSE rest + 1

\* list.remove(x) where x is in the list: the first occurrence goes.
Remove(list, x) ==
  LET at == FirstIndex(list, x)
  IN SubSeq(list, 1, at - 1) \o SubSeq(list, at + 1, Len(list))

\* Lines 215-219: [raised, ids] once the identifiers ignored[from..] are removed.
RECURSIVE RemoveIgnored(_, _)
RemoveIgnored(list, ignored) ==
  IF ignored = <<>> THEN [raised |-> FALSE, ids |-> list]
  ELSE IF FirstIndex(list, Head(ignored)) = 0 THEN [raised |-> TRUE, ids |-> list]
  ELSE RemoveIgnored(Remove(list, Head(ignored)), Tail(ignored))

\* Every outcome of list_speakers(args).
ListSpeakers(speakers, ignored) ==
  {RemoveIgnored(base, IF ignored = None THEN <<>> ELSE ValueOf(ignored)) :
     base \in IF speakers = None THEN DiscoveredSpeakers ELSE {ValueOf(speakers)}}

\* nargs="+": a list given on the command line is not empty.
ArgLists(cap) == UNION {[1..m -> SpeakerNames] : m \in 1..cap}

InitSpeakers ==
  /\ spk_pc = "base"
  /\ args_speakers \in {None} \cup {Some(l) : l \in ArgLists(MaxSpeakerArgs)}
  /\ args_ignored \in {None} \cup {Some(l) : l \in ArgLists(MaxIgnoredArgs)}
  /\ speaker_ids = <<>>
  /\ ignored_i = 1

\* Lines 209-213.
ChooseBase ==
  /\ spk_pc = "base"
  /\ speaker_ids' \in IF args_speakers = None THEN DiscoveredSpeakers
                      ELSE {ValueOf(args_speakers)}
  /\ spk_pc' = "ignore"
  /\ UNCHANGED <<args_speakers, args_ignored, ignored_i>>
  /\ UNCHANGED <<loadVars, listVars, runVars>>

\* Lines 216-217: one iteration; list.remove raises ValueError when the
\* identifier is not in the list.
RemoveOne ==
  /\ spk_pc = "ignore"
  /\ args_ignored # None
  /\ ignored_i <= Len(ValueOf(args_ignored))
  /\ LET speaker_id == ValueOf(args_ignored)[ignored_i]
     IN IF FirstIndex(speaker_ids, speaker_id) = 0
        THEN spk_pc' = "raised" /\ UNCHANGED <<speaker_ids, ignored_i>>
        ELSE /\ speaker_ids' = Remove(speaker_ids, speaker_id)
             /\ ignored_i' = ignored_i + 1
             /\ UNCHANGED spk_pc
  /\ UNCHANGED <<args_speakers, args_ignored>>
  /\ UNCHANGED <<loadVars, listVars, runVars>>

\* Line 219.
ReturnSpeakers ==
  /\ spk_pc = "ignore"
  /\ IF args_ignored = None THEN TRUE ELSE ignored_i > Len(ValueOf(args_ignored))
  /\ spk_pc' = "done"
  /\ UNCHANGED <<args_speakers, args_ignored, speaker_ids, ignored_i>>
  /\ UNCHANGED <<loadVars, listVars, runVars>>

NextSpeakers == ChooseBase \/ RemoveOne \/ ReturnSpeakers

\* The elements of a list.
Elements(list) == {list[i] : i \in 1..Len(list)}

\* The list without the elements of a set, in order.
RECURSIVE Without(_, _)
Without(list, drop) ==
  IF list = <<>> THEN <<>>
  ELSE IF Head(list) \in drop THEN Without(Tail(list), drop)
  ELSE <<Head(list)>> \o Without(Tail(list), drop)

\* The base list of an --speakers argument (a discovered list otherwise
\* holds every speaker once).
BaseElements == IF args_speakers = None THEN Speakers ELSE Elements(ValueOf(args_speakers))

IgnoredElements == IF args_ignored = None THEN {} ELSE Elements(ValueOf(args_ignored))

\* C4: list_speakers raises exactly when some ignored identifier is absent
\* from the base list, and otherwise returns the base speakers that are not
\* in the ignore list.
C4_IgnoredRemoved ==
  /\ spk_pc = "raised" => ~(IgnoredElements \subseteq BaseElements)
  /\ spk_pc = "done" =>
       /\ IgnoredElements \subseteq BaseElements
       /\ Elements(speaker_ids) \cap IgnoredElements = {}
       /\ args_speakers # None =>
            speaker_ids = Without(ValueOf(args_speakers), IgnoredElements)

(***************************************************************************)
(* The commands: preprocess, train, predict                                *)
(***************************************************************************)

\* At most this many of the calls a run makes fail for a reason outside
\* the program (a corrupt file, a full disk, a numeric failure).
MaxFaults == 1

\* max_files of the three list_data calls.
PreprocessMaxFiles == 1500

PredictMaxFiles == 10

CleanMaxFiles == 3

AbsentFile == [status |-> "absent", content |-> None]

PartialFile == [status |-> "partial", content |-> None]

WrittenFile(content) == [status |-> "written", content |-> Some(content)]

\* The command lines tried: every speaker; one speaker named twice; one
\* speaker ignored; an ignored speaker that is none of the base list.
CommandLines ==
  {[speakers |-> None, ignored |-> None],
   [speakers |-> Some(<<"s1", "s1">>), ignored |-> None],
   [speakers |-> None, ignored |-> Some(<<"s2">>)],
   [speakers |-> Some(<<"s1">>), ignored |-> Some(<<"s3">>)]}

\* args.dataset_dir.
DatasetDir == <<"test">>

\* dataset_dir.replace('test', 'validation'), on whole path components.
ValidationPath(dataset_dir) ==
  [i \in 1..Len(dataset_dir) |->
     IF dataset_dir[i] = "test" THEN "validation" ELSE dataset_dir[i]]

\* VideoNormalizer(samples): statistics fitted once, on those samples.
Fit(samples_name) == [fitted_on |-> samples_name, fits |-> 1]

NormalizeNothing(tensor, normalizer) == tensor

\* video_normalizer.normalize(tensor): in place, with the fitted statistics.
Normalize(tensor, normalizer) == Some(Append(ValueOf(tensor), ValueOf(normalizer)))

PickleNothing(file, object) == file

\* pickle.dump(object, fd) on a file opened 'wb'.
PickleDump(file, object) == WrittenFile(object)

InitRun ==
  /\ cmd = "shell"
  /\ ran = {}
  /\ pc = "none"
  /\ escaped = "none"
  /\ faults = 0
  /\ args = [speakers |-> None, ignored |-> None]
  /\ blob_file = AbsentFile
  /\ normalization_cache = AbsentFile
  /\ model_cache = AbsentFile
  /\ video_normalizer = None
  /\ train_video_samples = None
  /\ validation_video_samples = None
  /\ video_samples = None
  /\ fed = {}
  /\ run_dir = FALSE
  /\ speaker_dirs = {}
  /\ sample_dirs = <<>>
  /\ cmd_speaker_ids = <<>>
  /\ listed = <<>>
  /\ clean_speech_paths = <<>>
  /\ si = 0
  /\ ci = 0
  /\ ti = 0
  /\ results = <<>>
  /\ caught = "none"
  /\ log = <<>>

\* The command goes on to its next step.
Goto(step) == pc' = step /\ UNCHANGED <<escaped, faults>>

\* A call fails for a reason outside the program and nothing catches it.
Fail(step) ==
  /\ faults < MaxFaults
  /\ faults' = faults + 1
  /\ pc' = "raised"
  /\ escaped' = step

\* A call raises because of the state it finds and nothing catches it.
Raise(step) == pc' = "raised" /\ escaped' = step /\ UNCHANGED faults

\* main: a command starts; preprocess, train and predict run in this order,
\* each at most once.
Start(command, first, earlier) ==
  /\ cmd = "shell"
  /\ ran \subseteq earlier
  /\ cmd' = command
  /\ ran' = ran \cup {command}
  /\ args' \in IF command = "train" THEN {args} ELSE CommandLines
  /\ pc' = first
  /\ escaped' = "none"
  /\ UNCHANGED <<faults, fileVars, storageVars, loopVars, guardVars, tensorVars>>
  /\ UNCHANGED <<loadVars, listVars, speakersVars>>

StartPreprocess == Start("preprocess", "list_speakers", {})

StartTrain == Start("train", "load_train", {"preprocess"})

StartPredict == Start("predict", "storage", {"preprocess", "train"})

\* The process ends: its objects are gone, its files stay.
Exit ==
  /\ cmd # "shell"
  /\ pc \in {"done", "raised"}
  /\ cmd' = "shell"
  /\ pc' = "none"
  /\ video_normalizer' = None
  /\ train_video_samples' = None
  /\ validation_video_samples' = None
  /\ video_samples' = None
  /\ cmd_speaker_ids' = <<>>
  /\ listed' = <<>>
  /\ clean_speech_paths' = <<>>
  /\ si' = 0 /\ ci' = 0 /\ ti' = 0
  /\ UNCHANGED <<ran, escaped, faults, args, fileVars, fed, storageVars, guardVars>>
  /\ UNCHANGED <<loadVars, listVars, speakersVars>>

(***************************************************************************)
(* preprocess                                                              *)
(***************************************************************************)

\* Line 18 (and line 104 of predict): list_speakers raises ValueError
\* through the command.
CallListSpeakers(next) ==
  \E r \in ListSpeakers(args.speakers, args.ignored) :
    IF r.raised
    THEN Raise("list_speakers") /\ UNCHANGED cmd_speaker_ids
    ELSE Goto(next) /\ cmd_speaker_ids' = r.ids

PreprocessListSpeakers ==
  /\ cmd = "preprocess" /\ pc = "list_speakers"
  /\ CallListSpeakers("list_data")
  /\ UNCHANGED <<cmd, ran, args, fileVars, storageVars, listed,
                 clean_speech_paths, si, ci, ti, guardVars, tensorVars>>
  /\ UNCHANGED <<loadVars, listVars, speakersVars>>

\* Lines 20-22.
PreprocessListData ==
  /\ cmd = "preprocess" /\ pc = "list_data"
  /\ \E r \in ListData(DatasetDir, cmd_speaker_ids, Some(PreprocessMaxFiles)) :
       listed' = <<r>>
  /\ Goto("preprocess_data")
  /\ UNCHANGED <<cmd, ran, args, fileVars, storageVars, cmd_speaker_ids,
                 clean_speech_paths, si, ci, ti, guardVars, tensorVars>>
  /\ UNCHANGED <<loadVars, listVars, speakersVars>>

\* Lines 24-26: data_processor.preprocess_data over every triple.
PreprocessData ==
  /\ cmd = "preprocess" /\ pc = "preprocess_data"
  /\ Goto("savez") \/ Fail("preprocess_data")
  /\ UNCHANGED <<cmd, ran, args, fileVars, storageVars, loopVars, guardVars,
                 tensorVars>>
  /\ UNCHANGED <<loadVars, listVars, speakersVars>>

\* Lines 28-34: np.savez; a failed write leaves no file or a part of one.
PreprocessSave ==
  /\ cmd = "preprocess" /\ pc = "savez"
  /\ \/ Goto("done") /\ blob_file' = WrittenFile("archive")
     \/ Fail("savez") /\ blob_file' \in {blob_file, PartialFile}
  /\ UNCHANGED <<cmd, ran, args, normalization_cache, model_cache, storageVars,
                 loopVars, guardVars, tensorVars>>
  /\ UNCHANGED <<loadVars, listVars, speakersVars>>

(***************************************************************************)
(* train                                                                   *)
(***************************************************************************)

\* Lines 72-74 and 76-78: load_preprocessed_samples; np.load raises on an
\* archive that is missing or cut short.
LoadSamples(step, next) ==
  IF blob_file.status # "written" THEN Raise(step)
  ELSE Goto(next) \/ Fail(step)

TrainLoad ==
  /\ cmd = "train" /\ pc = "load_train"
  /\ LoadSamples("load_train", "load_validation")
  /\ train_video_samples' = IF pc' = "raised" THEN None ELSE Some(<<>>)
  /\ UNCHANGED <<cmd, ran, args, fileVars, storageVars, loopVars, guardVars,
                 video_normalizer, validation_video_samples, video_samples, fed>>
  /\ UNCHANGED <<loadVars, listVars, speakersVars>>

TrainLoadValidation ==
  /\ cmd = "train" /\ pc = "load_validation"
  /\ LoadSamples("load_validation", "fit")
  /\ validation_video_samples' = IF pc' = "raised" THEN None ELSE Some(<<>>)
  /\ UNCHANGED <<cmd, ran, args, fileVars, storageVars, loopVars, guardVars,
                 video_normalizer, train_video_samples, video_samples, fed>>
  /\ UNCHANGED <<loadVars, listVars, speakersVars>>

\* Line 80.
TrainFit ==
  /\ cmd = "train" /\ pc = "fit"
  /\ \/ Goto("normalize_train") /\ video_normalizer' = Some(Fit("train_video_samples"))
     \/ Fail("fit") /\ UNCHANGED video_normalizer
  /\ UNCHANGED <<cmd, ran, args, fileVars, storageVars, loopVars, guardVars,
                 train_video_samples, validation_video_samples, video_samples, fed>>
  /\ UNCHANGED <<loadVars, listVars, speakersVars>>

\* Line 81.
TrainNormalizeTrain ==
  /\ cmd = "train" /\ pc = "normalize_train"
  /\ \/ /\ Goto("normalize_validation")
        /\ train_video_samples' = Normalize(train_video_samples, video_normalizer)
     \/ Fail("normalize_train") /\ UNCHANGED train_video_samples
  /\ UNCHANGED <<cmd, ran, args, fileVars, storageVars, loopVars, guardVars,
                 video_normalizer, validation_video_samples, video_samples, fed>>
  /\ UNCHANGED <<loadVars, listVars, speakersVars>>

\* Line 82.
TrainNormalizeValidation ==
  /\ cmd = "train" /\ pc = "normalize_validation"
  /\ \/ /\ Goto("dump")
        /\ validation_video_samples' =
             Normalize(validation_video_samples, video_normalizer)
     \/ Fail("normalize_validation") /\ UNCHANGED validation_video_samples
  /\ UNCHANGED <<cmd, ran, args, fileVars, storageVars, loopVars, guardVars,
                 video_normalizer, train_video_samples, video_samples, fed>>
  /\ UNCHANGED <<loadVars, listVars, speakersVars>>

\* Lines 84-85: open(..., 'wb') creates the file, pickle.dump fills it; a
\* failed open leaves the file as it was, a failed dump leaves a part.
TrainDump ==
  /\ cmd = "train" /\ pc = "dump"
  /\ \/ /\ Goto("build")
        /\ normalization_cache' =
             PickleDump(normalization_cache, ValueOf(video_normalizer))
     \/ Fail("dump") /\ normalization_cache' \in {normalization_cache, PartialFile}
  /\ UNCHANGED <<cmd, ran, args, blob_file, model_cache, storageVars, loopVars,
                 guardVars, tensorVars>>
  /\ UNCHANGED <<loadVars, listVars, speakersVars>>

\* Line 87.
TrainBuild ==
  /\ cmd = "train" /\ pc = "build"
  /\ Goto("network_train") \/ Fail("build")
  /\ UNCHANGED <<cmd, ran, args, fileVars, storageVars, loopVars, guardVars,
                 tensorVars>>
  /\ UNCHANGED <<loadVars, listVars, speakersVars>>

\* A video tensor as the network receives it.
Fed(call, name, tensor) == [to |-> call, tensor |-> name, applied |-> ValueOf(tensor)]

\* Lines 88-92: network.train receives both video tensors.
TrainNetwork ==
  /\ cmd = "train" /\ pc = "network_train"
  /\ fed' = fed \cup
       {Fed("train", "train_video_samples", train_video_samples),
        Fed("train", "validation_video_samples", validation_video_samples)}
  /\ Goto("save") \/ Fail("network_train")
  /\ UNCHANGED <<cmd, ran, args, fileVars, storageVars, loopVars, guardVars,
                 video_normalizer, train_video_samples, validation_video_samples,
                 video_samples>>
  /\ UNCHANGED <<loadVars, listVars, speakersVars>>

\* Line 94: network.save; a failed save leaves no model or a part of one.
TrainSave ==
  /\ cmd = "train" /\ pc = "save"
  /\ \/ Goto("done") /\ model_cache' = WrittenFile("model")
     \/ Fail("save") /\ model_cache' \in {model_cache, PartialFile}
  /\ UNCHANGED <<cmd, ran, args, blob_file, normalization_cache, storageVars,
                 loopVars, guardVars, tensorVars>>
  /\ UNCHANGED <<loadVars, listVars, speakersVars>>

(***************************************************************************)
(* PredictionStorage                                                       *)
(***************************************************************************)

\* Lines 181-192: the files of a sample directory, in the order written.
WriteOrder ==
  <<"source.wav", "mixture.wav", "enhanced.wav", "nn.wav",
    "mixture.npy", "enhanced.npy", "nn.npy">>

\* What a call writes into a file: the copy of the speech file, or a signal
\* or spectrogram computed from the triple.
Content(file, triple) ==
  IF file = "source.wav" THEN <<"copy", triple.speech>>
  ELSE <<file, triple.video, triple.speech, triple.noise>>

\* Lines 170-173: the name of the sample directory.
SampleDirName(video_file_path, noise_file_path) ==
  SplitextRoot(Basename(video_file_path)) \o <<"_">> \o
  SplitextRoot(Basename(noise_file_path))

\* The files of a sample directory whose writes ran up to the fault-th one,
\* which failed (fault = 0: none failed) and left a cut file or none.
FilesWritten(triple, fault, leftover) ==
  LET last == IF fault = 0 THEN Len(WriteOrder) ELSE fault - 1
      whole == {WriteOrder[i] : i \in 1..last}
      cut == IF fault # 0 /\ leftover THEN {WriteOrder[fault]} ELSE {}
  IN [f \in whole \cup cut |->
        IF f \in whole THEN Content(f, triple) ELSE <<"truncated">>]

SavePredictionOverwrite(made, dirs, speaker_id, triple, fault, leftover) ==
  LET key == <<speaker_id, SampleDirName(triple.video, triple.noise)>>
  IN [speakers |-> made \cup {speaker_id},
      samples |-> [k \in DOMAIN dirs \cup {key} |->
                     IF k = key THEN FilesWritten(triple, fault, leftover)
                     ELSE dirs[k]],
      error |-> IF fault # 0 THEN "Exception" ELSE "none"]

\* Lines 164-192: save_prediction on the directories present; os.mkdir
\* raises FileExistsError on a directory that exists.
SavePrediction(made, dirs, speaker_id, triple, fault, leftover) ==
  LET key == <<speaker_id, SampleDirName(triple.video, triple.noise)>>
  IN IF key \in DOMAIN dirs
     THEN [speakers |-> made \cup {speaker_id},
           samples |-> dirs,
           error |-> "FileExistsError"]
     ELSE [speakers |-> made \cup {speaker_id},
           samples |-> [k \in DOMAIN dirs \cup {key} |->
                          IF k = key THEN FilesWritten(triple, fault, leftover)
                          ELSE dirs[k]],
           error |-> IF fault # 0 THEN "Exception" ELSE "none"]

(***************************************************************************)
(* predict                                                                 *)
(***************************************************************************)

\* What the steps of predict leave alone unless they say otherwise.
predictFrame ==
  <<cmd, ran, args, fileVars, train_video_samples, validation_video_samples>>

\* Line 98 with lines 152-154.
PredictStorage ==
  /\ cmd = "predict" /\ pc = "storage"
  /\ \/ Goto("load_network") /\ run_dir' = TRUE
     \/ Fail("storage") /\ UNCHANGED run_dir
  /\ UNCHANGED <<predictFrame, speaker_dirs, sample_dirs, loopVars, guardVars,
                 video_normalizer, video_samples, fed>>
  /\ UNCHANGED <<loadVars, listVars, speakersVars>>

\* Line 99: there is no model to load unless train saved one.
PredictLoadNetwork ==
  /\ cmd = "predict" /\ pc = "load_network"
  /\ IF model_cache.status # "written" THEN Raise("load_network")
     ELSE Goto("load_normalizer") \/ Fail("load_network")
  /\ UNCHANGED <<predictFrame, storageVars, loopVars, guardVars,
                 video_normalizer, video_samples, fed>>
  /\ UNCHANGED <<loadVars, listVars, speakersVars>>

\* Lines 101-102: open raises on a missing file, pickle.load on a cut one.
PredictLoadNormalizer ==
  /\ cmd = "predict" /\ pc = "load_normalizer"
  /\ IF normalization_cache.status # "written"
     THEN Raise("load_normalizer") /\ UNCHANGED video_normalizer
     ELSE \/ Goto("list_speakers") /\ video_normalizer' = normalization_cache.content
          \/ Fail("load_normalizer") /\ UNCHANGED video_normalizer
  /\ UNCHANGED <<predictFrame, storageVars, loopVars, guardVars, video_samples, fed>>
  /\ UNCHANGED <<loadVars, listVars, speakersVars>>

\* Where the loops of lines 105 and 118 stand before triple t of speaker s:
\* <<pc, si, ti>>.
LoopHead(s, t, lists, speakers) ==
  IF s >= 1 /\ s <= Len(lists) /\ t <= Len(lists[s].video)
  THEN <<"preprocess_sample", s, t>>
  ELSE IF s < Len(speakers) THEN <<"list_data", s + 1, 0>>
  ELSE <<"done", s, t>>

\* Line 104, and the loop of line 105 entered.
PredictListSpeakers ==
  /\ cmd = "predict" /\ pc = "list_speakers"
  /\ \E r \in ListSpeakers(args.speakers, args.ignored) :
       IF r.raised
       THEN Raise("list_speakers") /\ UNCHANGED <<cmd_speaker_ids, si, ti>>
       ELSE /\ cmd_speaker_ids' = r.ids
            /\ pc' = LoopHead(0, 0, <<>>, r.ids)[1]
            /\ si' = LoopHead(0, 0, <<>>, r.ids)[2]
            /\ ti' = LoopHead(0, 0, <<>>, r.ids)[3]
            /\ UNCHANGED <<escaped, faults>>
  /\ UNCHANGED <<predictFrame, storageVars, listed, clean_speech_paths, ci,
                 guardVars, video_normalizer, video_samples, fed>>
  /\ UNCHANGED <<loadVars, listVars, speakersVars>>

\* Lines 106-108.
PredictListData ==
  /\ cmd = "predict" /\ pc = "list_data"
  /\ \E r \in ListData(DatasetDir, <<cmd_speaker_ids[si]>>, Some(PredictMaxFiles)) :
       listed' = Append(listed, r)
  /\ Goto("list_clean")
  /\ UNCHANGED <<predictFrame, storageVars, cmd_speaker_ids, clean_speech_paths,
                 si, ci, ti, guardVars, video_normalizer, video_samples, fed>>
  /\ UNCHANGED <<loadVars, listVars, speakersVars>>

\* Lines 110-112.
PredictListClean ==
  /\ cmd = "predict" /\ pc = "list_clean"
  /\ \E r \in ListData(ValidationPath(DatasetDir), <<cmd_speaker_ids[si]>>,
                       Some(CleanMaxFiles)) :
       clean_speech_paths' = r.speech
  /\ ci' = 1
  /\ Goto("load_clean")
  /\ UNCHANGED <<predictFrame, storageVars, cmd_speaker_ids, listed, si, ti,
                 guardVars, video_normalizer, video_samples, fed>>
  /\ UNCHANGED <<loadVars, listVars, speakersVars>>

\* Lines 113-116: one iteration; AudioSignal.from_wav_file and
\* preprocess_audio_signal run outside any try.
PredictLoadClean ==
  /\ cmd = "predict" /\ pc = "load_clean"
  /\ ci <= Len(clean_speech_paths)
  /\ \/ Goto("load_clean") /\ ci' = ci + 1
     \/ Fail("load_clean") /\ UNCHANGED ci
  /\ UNCHANGED <<predictFrame, storageVars, cmd_speaker_ids, listed,
                 clean_speech_paths, si, ti, guardVars, video_normalizer,
                 video_samples, fed>>
  /\ UNCHANGED <<loadVars, listVars, speakersVars>>

\* Line 118: the loop over the triples entered; the clean spectrograms
\* are not used again.
PredictEnterTriples ==
  /\ cmd = "predict" /\ pc = "load_clean"
  /\ ci > Len(clean_speech_paths)
  /\ pc' = LoopHead(si, 1, listed, cmd_speaker_ids)[1]
  /\ si' = LoopHead(si, 1, listed, cmd_speaker_ids)[2]
  /\ ti' = LoopHead(si, 1, listed, cmd_speaker_ids)[3]
  /\ clean_speech_paths' = <<>>
  /\ ci' = 0
  /\ UNCHANGED <<escaped, faults>>
  /\ UNCHANGED <<predictFrame, storageVars, cmd_speaker_ids, listed, guardVars,
                 video_normalizer, video_samples, fed>>
  /\ UNCHANGED <<loadVars, listVars, speakersVars>>

\* The triple of the current iteration of line 118.
Triple ==
  [video |-> listed[si].video[ti], speech |-> listed[si].speech[ti],
   noise |-> listed[si].noise[ti]]

\* The iteration of line 118 is over: on to the next triple or speaker.
NextTriple ==
  /\ pc' = LoopHead(si, ti + 1, listed, cmd_speaker_ids)[1]
  /\ si' = LoopHead(si, ti + 1, listed, cmd_speaker_ids)[2]
  /\ ti' = LoopHead(si, ti + 1, listed, cmd_speaker_ids)[3]
  /\ video_samples' = None

ExceptReraise(error) ==
  /\ pc' = "raised"
  /\ escaped' = "triple"
  /\ UNCHANGED <<si, ti, video_samples, results, log>>
  /\ caught' = error

\* Lines 146-147: the guard catches the exception and logs it.
Except(error) ==
  /\ log' = Append(log, Triple.video)
  /\ results' = Append(results, [speaker |-> si, triple |-> ti, raised |-> TRUE])
  /\ caught' = error
  /\ NextTriple
  /\ UNCHANGED escaped

\* A step inside the try fails for a reason outside the program.
Fault == faults < MaxFaults /\ faults' = faults + 1

\* A step inside the try returns.
Proceed(step) == pc' = step /\ UNCHANGED <<si, ti, escaped, faults, guardVars>>

\* Lines 122-124.
PredictPreprocessSample ==
  /\ cmd = "predict" /\ pc = "preprocess_sample"
  /\ \/ Proceed("normalize") /\ video_samples' = Some(<<>>)
     \/ Fault /\ Except("Exception")
  /\ UNCHANGED <<predictFrame, storageVars, cmd_speaker_ids, listed,
                 clean_speech_paths, ci, video_normalizer, fed>>
  /\ UNCHANGED <<loadVars, listVars, speakersVars>>

\* Line 126.
PredictNormalize ==
  /\ cmd = "predict" /\ pc = "normalize"
  /\ \/ /\ Proceed("evaluate")
        /\ video_samples' = Normalize(video_samples, video_normalizer)
     \/ Fault /\ Except("Exception")
  /\ UNCHANGED <<predictFrame, storageVars, cmd_speaker_ids, listed,
                 clean_speech_paths, ci, video_normalizer, fed>>
  /\ UNCHANGED <<loadVars, listVars, speakersVars>>

\* Lines 128-129.
PredictEvaluate ==
  /\ cmd = "predict" /\ pc = "evaluate"
  /\ fed' = fed \cup {Fed("evaluate", "video_samples", video_samples)}
  /\ \/ Proceed("predict") /\ UNCHANGED video_samples
     \/ Fault /\ Except("Exception")
  /\ UNCHANGED <<predictFrame, storageVars, cmd_speaker_ids, listed,
                 clean_speech_paths, ci, video_normalizer>>
  /\ UNCHANGED <<loadVars, listVars, speakersVars>>

\* Line 131.
PredictPredict ==
  /\ cmd = "predict" /\ pc = "predict"
  /\ fed' = fed \cup {Fed("predict", "video_samples", video_samples)}
  /\ \/ Proceed("reconstruct_spectrograms") /\ UNCHANGED video_samples
     \/ Fault /\ Except("Exception")
  /\ UNCHANGED <<predictFrame, storageVars, cmd_speaker_ids, listed,
                 clean_speech_paths, ci, video_normalizer>>
  /\ UNCHANGED <<loadVars, listVars, speakersVars>>

\* Lines 132-136.
PredictReconstructSpectrograms ==
  /\ cmd = "predict" /\ pc = "reconstruct_spectrograms"
  /\ \/ Proceed("reconstruct_signals") /\ UNCHANGED video_samples
     \/ Fault /\ Except("Exception")
  /\ UNCHANGED <<predictFrame, storageVars, cmd_speaker_ids, listed,
                 clean_speech_paths, ci, video_normalizer, fed>>
  /\ UNCHANGED <<loadVars, listVars, speakersVars>>

\* Lines 138-139.
PredictReconstructSignals ==
  /\ cmd = "predict" /\ pc = "reconstruct_signals"
  /\ \/ Proceed("save_prediction") /\ UNCHANGED video_samples
     \/ Fault /\ Except("Exception")
  /\ UNCHANGED <<predictFrame, storageVars, cmd_speaker_ids, listed,
                 clean_speech_paths, ci, video_normalizer, fed>>
  /\ UNCHANGED <<loadVars, listVars, speakersVars>>

\* Lines 141-144 with lines 164-192: save_prediction, any one of its seven
\* writes failing or none, and the guard around it.
PredictSave ==
  /\ cmd = "predict" /\ pc = "save_prediction"
  /\ \E fault \in 0..Len(WriteOrder), leftover \in BOOLEAN :
       LET saved == SavePrediction(speaker_dirs, sample_dirs,
                                   cmd_speaker_ids[si], Triple, fault, leftover)
       IN /\ fault = 0 => ~leftover
          /\ speaker_dirs' = saved.speakers
          /\ sample_dirs' = saved.samples
          /\ IF saved.error = "none"
             THEN /\ results' = Append(results, [speaker |-> si, triple |-> ti,
                                                 raised |-> FALSE])
                  /\ NextTriple
                  /\ UNCHANGED <<escaped, faults, caught, log>>
             ELSE /\ IF saved.error = "FileExistsError"
                     THEN fault = 0 /\ UNCHANGED faults
                     ELSE Fault
                  /\ Except(saved.error)
  /\ UNCHANGED <<predictFrame, run_dir, cmd_speaker_ids, listed,
                 clean_speech_paths, ci, video_normalizer, fed>>
  /\ UNCHANGED <<loadVars, listVars, speakersVars>>

NextRun ==
  \/ StartPreprocess \/ PreprocessListSpeakers \/ PreprocessListData
  \/ PreprocessData \/ PreprocessSave
  \/ StartTrain \/ TrainLoad \/ TrainLoadValidation \/ TrainFit
  \/ TrainNormalizeTrain \/ TrainNormalizeValidation \/ TrainDump
  \/ TrainBuild \/ TrainNetwork \/ TrainSave
  \/ StartPredict \/ PredictStorage \/ PredictLoadNetwork
  \/ PredictLoadNormalizer \/ PredictListSpeakers \/ PredictListData
  \/ PredictListClean \/ PredictLoadClean \/ PredictEnterTriples
  \/ PredictPreprocessSample \/ PredictNormalize \/ PredictEvaluate
  \/ PredictPredict \/ PredictReconstructSpectrograms
  \/ PredictReconstructSignals \/ PredictSave
  \/ Exit

(***************************************************************************)
(* Specifications                                                          *)
(***************************************************************************)

\* A function that is not running.
IdleLoad ==
  /\ preprocessed_blob_paths = <<>> /\ max_samples = None /\ load_pc = "idle"
  /\ all_samples = NoArrays /\ samples = NoArrays /\ permutation = <<>>
  /\ load_result = NoArrays

IdleList ==
  /\ ld_pc = "idle" /\ ld_speaker_ids = <<>> /\ ld_max_files = None
  /\ speech_subset = <<>> /\ noise_file_paths = <<>> /\ ld_result = NoResult

IdleSpeakers ==
  /\ spk_pc = "idle" /\ args_speakers = None /\ args_ignored = None
  /\ speaker_ids = <<>> /\ ignored_i = 1

LoadInit == InitLoad /\ IdleList /\ IdleSpeakers /\ InitRun

ListInit == IdleLoad /\ InitList /\ IdleSpeakers /\ InitRun

SpeakersInit == IdleLoad /\ IdleList /\ InitSpeakers /\ InitRun

Init == IdleLoad /\ IdleList /\ IdleSpeakers /\ InitRun

\* load_preprocessed_samples on every list of archives.
SpecLoad == LoadInit /\ [][NextLoad]_vars

\* list_data on every dataset listing.
SpecList == ListInit /\ [][NextList]_vars

\* list_speakers on every command line.
SpecSpeakers == SpeakersInit /\ [][NextSpeakers]_vars

\* The commands preprocess, train and predict, run one after the other.
Spec == Init /\ [][NextRun]_vars

(***************************************************************************)
(* Properties of the commands                                              *)
(***************************************************************************)

\* The triples of the list_data results so far: <<speaker index, index>>.
AllTriples ==
  UNION {{<<s, t>> : t \in 1..Len(listed[s].video)} : s \in 1..Len(listed)}

\* The positions in results of the triples that raised, and of the others.
RaisedResults == {i \in 1..Len(results) : results[i].raised}

SavedResults == {i \in 1..Len(results) : ~results[i].raised}

\* A sample directory holding the seven files, each written whole.
Complete(files) ==
  /\ DOMAIN files = {WriteOrder[i] : i \in 1..Len(WriteOrder)}
  /\ \A f \in DOMAIN files : files[f] # <<"truncated">>

CompleteDirs == {k \in DOMAIN sample_dirs : Complete(sample_dirs[k])}

\* The steps of predict that no try encloses.
UnguardedSteps ==
  {"storage", "load_network", "load_normalizer", "list_speakers", "load_clean"}

\* C5: an exception raised while a triple is processed does not leave the
\* guard (predict is left only from a step outside it); every triple before
\* the current one has been tried exactly once, in order, and when predict
\* returns every triple of every speaker has; one failure is logged per
\* triple that raised; and the complete sample directories are as many as
\* the triples that raised nothing.
C5_GuardHolds ==
  /\ (cmd = "predict" /\ pc = "raised") => escaped \in UnguardedSteps
  /\ Len(log) = Cardinality(RaisedResults)
  /\ Cardinality(CompleteDirs) = Cardinality(SavedResults)
  /\ cmd = "predict" =>
       /\ \A i, j \in 1..Len(results) :
            i < j => \/ results[i].speaker < results[j].speaker
                     \/ /\ results[i].speaker = results[j].speaker
                        /\ results[i].triple < results[j].triple
       /\ {<<results[i].speaker, results[i].triple>> : i \in 1..Len(results)} =
            {tr \in AllTriples :
               \/ pc = "done"
               \/ tr[1] < si
               \/ tr[1] = si /\ tr[2] < ti}
       /\ pc = "done" => Len(listed) = Len(cmd_speaker_ids)

\* The first triple raised, the second was saved, and so was one of the
\* next speaker.
C5_Witness ==
  /\ cmd = "predict" /\ pc = "done"
  /\ Len(results) >= 3
  /\ results[1].raised /\ ~results[2].raised
  /\ results[Len(results)].speaker = 2 /\ ~results[Len(results)].raised
  /\ Len(log) = 1
  /\ Cardinality(DOMAIN sample_dirs) = Len(results) - 1

\* The sample directory save_prediction is about to make.
SaveKey == <<cmd_speaker_ids[si], SampleDirName(Triple.video, Triple.noise)>>

\* C6: a save_prediction call that finds no directory of its name and
\* returns leaves the speaker directory and a new sample directory holding
\* exactly the seven files, and changes no other directory; a call that
\* finds the directory raises FileExistsError and changes no file.
C6_SaveOnce ==
  [][(cmd = "predict" /\ pc = "save_prediction") =>
       /\ SaveKey \in DOMAIN sample_dirs =>
            /\ sample_dirs' = sample_dirs
            /\ caught' = "FileExistsError"
            /\ Len(log') = Len(log) + 1
       /\ (SaveKey \notin DOMAIN sample_dirs /\ Len(log') = Len(log)) =>
            /\ cmd_speaker_ids[si] \in speaker_dirs'
            /\ DOMAIN sample_dirs' = DOMAIN sample_dirs \cup {SaveKey}
            /\ sample_dirs'[SaveKey] =
                 [f \in {WriteOrder[i] : i \in 1..Len(WriteOrder)} |-> Content(f, Triple)]
            /\ \A k \in DOMAIN sample_dirs : sample_dirs'[k] = sample_dirs[k]]_vars

\* A second call with the names of a saved sample and another noise file
\* has raised; the directory holds what the first call wrote.
C6_Witness ==
  /\ cmd = "predict"
  /\ caught = "FileExistsError"
  /\ Len(listed) = 2
  /\ results = <<[speaker |-> 1, triple |-> 1, raised |-> FALSE],
                 [speaker |-> 2, triple |-> 1, raised |-> TRUE]>>
  /\ listed[1].video[1] = listed[2].video[1]
  /\ listed[1].noise[1] # listed[2].noise[1]
  /\ \E k \in DOMAIN sample_dirs :
       /\ Complete(sample_dirs[k])
       /\ sample_dirs[k]["mixture.wav"][4] = listed[1].noise[1]

\* C7: every triple whose processing failed has no sample directory in the
\* run directory, and no sample directory is partially filled.
C7_NoPartialDirectory ==
  cmd = "predict" =>
    /\ \A i \in RaisedResults :
         LET s == results[i].speaker
             t == results[i].triple
         IN <<cmd_speaker_ids[s], SampleDirName(listed[s].video[t], listed[s].noise[t])>>
              \notin DOMAIN sample_dirs
    /\ \A k \in DOMAIN sample_dirs : Complete(sample_dirs[k])

\* C8: no failure to read or process one media file, a file of a triple or
\* a clean validation speech file, makes predict stop.
C8_NeverAborts ==
  (cmd = "predict" /\ pc = "raised") => escaped \notin {"triple", "load_clean"}

\* The steps of train before the normalization cache is opened, and after
\* it is closed.
BeforeDump ==
  {"load_train", "load_validation", "fit", "normalize_train", "normalize_validation"}

AfterDump == {"build", "network_train", "save"}

TrainStatistics == [fitted_on |-> "train_video_samples", fits |-> 1]

C10_NormalizedOnce ==
  /\ \A f \in fed : f.applied = <<TrainStatistics>>
  /\ video_normalizer # None => video_normalizer = Some(TrainStatistics)
  /\ normalization_cache.status = "written" =>
       normalization_cache.content = Some(TrainStatistics)
  /\ (cmd = "train" /\ pc \in {"save", "done"}) =>
       {f.tensor : f \in fed} = {"train_video_samples", "validation_video_samples"}

\* A triple's tensor went through evaluate and predict after a training.
C10_Witness ==
  /\ cmd = "predict"
  /\ \E f \in fed : f.to = "train" /\ f.tensor = "validation_video_samples"
  /\ \E f \in fed : f.to = "evaluate"
  /\ \E f \in fed : f.to = "predict"

====
